---- MODULE Spec2Model ----
(***************************************************************************)
(* Dialogue flow of src/healthcare.py (a Streamlit script).                *)
(*                                                                         *)
(* The script is run top to bottom once per widget event.  The session    *)
(* state (st.session_state) is the state of the model; every widget event  *)
(* is one action that carries the whole script run it causes.  The only    *)
(* long step of a run is the streamed transport call of                    *)
(* handle_final_response: it is split in two, the part up to               *)
(* send_message_stream (user entry appended, call started) and the part    *)
(* after the stream is consumed (assistant entry appended).  While the     *)
(* stream is consumed the page stays interactive: a widget event stops the *)
(* running script at its next st.* call (the streaming loop, line 252;     *)
(* the stop is a BaseException, which `except Exception` of line 259 does  *)
(* not catch) and starts the run of the new event.                         *)
(*                                                                         *)
(* Text is a sequence of tokens.  User input, the keywords and the marker  *)
(* "Requesting info" are spelled character by character, so that lower(),  *)
(* `in` and startswith() are computed as Python computes them; a longer    *)
(* token stands for a fixed run of characters of a template of the source. *)
(*                                                                         *)
(* Init is the session after the first script run (reset_chat of line 302  *)
(* with an API key present).  Without a key reset_chat returns early, no   *)
(* history exists and the script stops at line 348 on every run.           *)
(***************************************************************************)
EXTENDS Integers, Sequences, FiniteSets, TLC

VARIABLES asking_for_details, show_prescription_form, user_details,
          current_language, user_choice_therapy, messages, gemini_chat,
          pc, call, event

vars == <<asking_for_details, show_prescription_form, user_details,
          current_language, user_choice_therapy, messages, gemini_chat,
          pc, call, event>>

(***************************************************************************)
(* Bounds                                                                  *)
(***************************************************************************)
\* longest history the model lets a turn start from, plus the turn's two entries
MaxMessages == 6
\* number of chat handles one session may create (the first one and the clears)
MaxChats == 2
\* the history bound of the specification with one input per widget
MaxFormMessages == 9

(***************************************************************************)
(* Text helpers (Python str operations)                                    *)
(***************************************************************************)
UpperLetters ==
  <<"A","B","C","D","E","F","G","H","I","J","K","L","M",
    "N","O","P","Q","R","S","T","U","V","W","X","Y","Z">>

LowerLetters ==
  <<"a","b","c","d","e","f","g","h","i","j","k","l","m",
    "n","o","p","q","r","s","t","u","v","w","x","y","z">>

\* str.lower() on one character
LowerChar(c) ==
  IF \E i \in 1..Len(UpperLetters) : UpperLetters[i] = c
  THEN LowerLetters[CHOOSE i \in 1..Len(UpperLetters) : UpperLetters[i] = c]
  ELSE c

\* str.lower()
Lower(s) == [i \in 1..Len(s) |-> LowerChar(s[i])]

\* str.startswith(p)
StartsWith(s, p) ==
  /\ Len(p) <= Len(s)
  /\ \A i \in 1..Len(p) : s[i] = p[i]

\* k in s   (substring test)
Contains(s, k) ==
  \E i \in 0..(Len(s) - Len(k)) : \A j \in 1..Len(k) : s[i + j] = k[j]

Whitespace == {" ", "\n", "\t"}

RECURSIVE LStrip(_)
LStrip(s) ==
  IF s # <<>> /\ Head(s) \in Whitespace THEN LStrip(Tail(s)) ELSE s

RECURSIVE RStrip(_)
RStrip(s) ==
  IF s # <<>> /\ s[Len(s)] \in Whitespace
  THEN RStrip(SubSeq(s, 1, Len(s) - 1))
  ELSE s

\* str.strip()
Strip(s) == RStrip(LStrip(s))

DigitChars == <<"0","1","2","3","4","5","6","7","8","9">>

\* f"{n}" for a non-negative integer
RECURSIVE IntToStr(_)
IntToStr(n) ==
  IF n < 10 THEN <<DigitChars[n + 1]>>
  ELSE IntToStr(n \div 10) \o <<DigitChars[(n % 10) + 1]>>

(***************************************************************************)
(* Configuration constants                                                 *)
(***************************************************************************)
TRIGGER_KEYWORDS ==
  { <<"s","y","m","p","t","o","m">>,
    <<"c","o","n","s","t","i","p","a","t","i","o","n">>,
    <<"p","a","i","n">>,
    <<"f","e","v","e","r">>,
    <<"h","e","a","d","a","c","h","e">>,
    <<"c","o","l","d">>,
    <<"f","l","u">>,
    <<"c","o","u","g","h">>,
    <<"h","e","a","r","t">>,
    <<"s","t","o","m","a","c","h">>,
    <<"s","k","i","n">> }

AGE_RANGES == <<"0-12", "13-17", "18-45", "46-65", "65+">>

GENDER_OPTIONS == <<"Male", "Female", "Prefer Not to Say">>

THERAPY_OPTIONS == <<"Ayurvedic Suggestion", "General/Modern Wellness">>

\* the values of LANGUAGE_MAP
LANGUAGE_MAP == {"English", "Kannada", "Hindi", "Telugu"}

\* the content of the first history entry
Greeting ==
  [role |-> "assistant",
   content |-> <<"Welcome! I am your Dr Drug Lord. Ask me about your symptoms.">>]

\* the fixed assistant message of the trigger branch
ContextRequiredMsg ==
  [role |-> "assistant",
   content |-> <<"*Context Required:* Please fill the form above so I can give you a specific solution.">>]

\* "Requesting info", the prefix handle_context_form_submit skips
RequestingInfo ==
  <<"R","e","q","u","e","s","t","i","n","g"," ","i","n","f","o">>

\* "Requesting info for medicine: "
MedicineRequestPrefix == RequestingInfo \o <<" for medicine: ">>

\* "An error occurred: "
ErrorPrefix == <<"An error occurred: ">>

\* st.session_state.user_details = {}
EmptyDict == [k \in {} |-> <<>>]

\* d.setdefault(k, v): a key already set keeps its value
DictSet_KeepExisting(d, k, v) ==
  [x \in (DOMAIN d) \cup {k} |-> IF x \in DOMAIN d THEN d[x] ELSE v]

\* d[k] = v
DictSet(d, k, v) ==
  [x \in (DOMAIN d) \cup {k} |-> IF x = k THEN v ELSE d[x]]

NoCall == [kind |-> "none", prompt |-> <<>>]

(***************************************************************************)
(* Inputs of the widgets                                                   *)
(***************************************************************************)
\* what speech_to_text / st.chat_input hand to line 433
TextInputs ==
  { <<>>,                                          \* nothing transcribed
    <<" ">>,                                       \* whitespace only
    <<"s","o","r","e">>,                           \* no keyword
    <<"F","e","v","e","r">>,                       \* keyword in another case
    <<"s","c","o","l","d">>,                       \* keyword inside a word
    RequestingInfo \o <<" ","f","l","u">> }        \* keyword after the marker

\* what st.text_input of the medicine form holds on submit
MedicineNames == { <<>>, <<"D","o","l","o"," ","6","5","0">> }

\* the choices of the context form the model submits
GenderChoices == {GENDER_OPTIONS[1], GENDER_OPTIONS[2]}
AgeChoices == {AGE_RANGES[3]}
WeightChoices == {70}
TherapyChoices == {THERAPY_OPTIONS[1], THERAPY_OPTIONS[2]}

\* the languages the selectbox is moved between
LanguageChoices == {"English", "Kannada"}

\* what the stream of send_message_stream concatenates to
Replies ==
  { <<"Summary.", "\n", "Tips.">>,
    <<"Summary.", " ", "[Image ", "of ", "knee anatomy", "]", "\n", "Tips.">>,
    \* "[Image [Image of a]of b]": a tag inside the opening of another
    <<"[Image ", "[Image ", "of ", "a", "]", "of ", "b", "]">> }

\* the text of an exception raised by the transport
Errors == { <<"429 quota exceeded">> }

(***************************************************************************)
(* Response post-processing                                                *)
(***************************************************************************)
\* the position of the "]" that ends the image tag starting at i, or 0:
\* "[Image of " followed by the shortest run without a line break up to "]"
TagEnd(s, i) ==
  IF i + 2 <= Len(s) /\ s[i] = "[Image " /\ s[i + 1] = "of "
  THEN LET ends == { j \in (i + 2)..Len(s) :
                       /\ s[j] = "]"
                       /\ \A k \in (i + 2)..(j - 1) : s[k] \notin {"]", "\n"} }
       IN IF ends = {} THEN 0 ELSE CHOOSE j \in ends : TRUE
  ELSE 0

\* re.findall: whether the pattern matches anywhere
HasImageTag(s) == \E i \in 1..Len(s) : TagEnd(s, i) # 0

\* re.sub(pattern, '', s): leftmost matches removed, scanning on after each
RECURSIVE RemoveTagsFrom(_, _)
RemoveTagsFrom(s, i) ==
  IF i > Len(s) THEN <<>>
  ELSE IF TagEnd(s, i) # 0 THEN RemoveTagsFrom(s, TagEnd(s, i) + 1)
  ELSE <<s[i]>> \o RemoveTagsFrom(s, i + 1)

\* clean_text of parse_and_display_response
CleanText(full_response) == Strip(RemoveTagsFrom(full_response, 1))

\* what the history loop puts on the page for entry i
Displayed(i) ==
  IF messages[i].role = "assistant" /\ i = Len(messages)
  THEN CleanText(messages[i].content)
  ELSE messages[i].content

(***************************************************************************)
(* Prompts                                                                 *)
(***************************************************************************)
\* final_prompt of handle_final_response
FinalPrompt(base_prompt, is_medicine_request, target_lang) ==
  IF is_medicine_request
  THEN base_prompt \o <<"\n", "\n", "Output in *", target_lang,
                        "*. Keep it brief: Usage + Key Symptoms treated.">>
  ELSE base_prompt \o <<"\n", "\n", "Constraint: Respond in ", target_lang, ". ",
                        "Keep it concise. Structure as: 1. Short Summary (assess if [Image of...] tag is needed and insert it IMMEDIATELY after the summary). 2. Bullet points for Solutions.">>

\* display_content of handle_final_response
DisplayContent(base_prompt, is_medicine_request) ==
  IF ~is_medicine_request THEN base_prompt
  ELSE MedicineRequestPrefix \o base_prompt

\* med_prompt of the medicine form
MedPrompt(medicine_name) ==
  <<"Please explain the general usage, purpose, and common symptoms treated by the medicine: '">>
  \o medicine_name
  \o <<"'. ", "Provide a clear note on when it is typically used.">>

\* the latest user entry, medicine requests included
OriginalSymptom_AnyUser(msgs) ==
  LET hits == { i \in 1..Len(msgs) : msgs[i].role = "user" }
  IN IF hits = {} THEN <<"General health enquiry.">>
     ELSE msgs[CHOOSE i \in hits : \A j \in hits : j <= i].content

\* original_symptom of handle_context_form_submit
OriginalSymptom(msgs) ==
  LET hits == { i \in 1..Len(msgs) :
                  /\ msgs[i].role = "user"
                  /\ ~StartsWith(msgs[i].content, RequestingInfo) }
  IN IF hits = {} THEN <<"General health enquiry.">>
     ELSE msgs[CHOOSE i \in hits : \A j \in hits : j <= i].content

\* prompt of handle_context_form_submit
ContextPrompt(original_symptom, user_gender, user_age, user_weight, user_therapy_choice) ==
  <<"User Complaint: ">> \o original_symptom \o <<"\n">>
  \o <<"Context: ", user_gender, ", Age ", user_age, ", Weight ">>
  \o IntToStr(user_weight) \o <<"kg", "\n">>
  \o <<"Preferred Approach: ", user_therapy_choice, "\n", "\n">>
  \o <<"Task: Provide a VERY SHORT, structured response.", "\n">>
  \o <<"1. Explain the problem in 1-2 sentences. (...) insert the appropriate  tag immediately after the summary sentence.", "\n">>
  \o <<"2. Provide 4-5 bullet points of clear solutions/remedies based on '",
       user_therapy_choice, "'.", "\n">>
  \o <<"Do not lecture. Go straight to the point.">>

(***************************************************************************)
(* The session state after the first script run                            *)
(***************************************************************************)
Init ==
  /\ asking_for_details = FALSE
  /\ show_prescription_form = FALSE
  /\ user_details = EmptyDict
  /\ current_language = "English"
  /\ user_choice_therapy = THERAPY_OPTIONS[2]
  /\ messages = <<Greeting>>
  /\ gemini_chat = [id |-> 1, sent |-> 0]
  /\ pc = "ready"
  /\ call = NoCall
  /\ event = [type |-> "start", arg |-> <<>>, during |-> "ready"]

\* the widget event (or transport outcome) a step handles, what came with it
\* (for a clear: the flags and the history length it found), and whether it
\* arrived while a response was being streamed
Record(type, arg) == event' = [type |-> type, arg |-> arg, during |-> pc]

(***************************************************************************)
(* Pieces of the script                                                    *)
(***************************************************************************)
\* the condition under which the voice and chat inputs are rendered
MainInputShown_IgnoresMedicineForm == ~asking_for_details

MainInputShown == ~asking_for_details /\ ~show_prescription_form

\* the inputs are on the page: rendered by the last finished run, or by the
\* running one before it entered handle_final_response
MainInputOnPage ==
  MainInputShown /\ (pc = "streaming" => call.kind = "direct")

\* the keyword test of the main input
NeedsContext_NoLower(user_input) ==
  \E k \in TRIGGER_KEYWORDS : Contains(user_input, k)

NeedsContext(user_input) ==
  \E k \in TRIGGER_KEYWORDS : Contains(Lower(user_input), k)

\* the two appends of the trigger branch
TriggerMessages_NoAssistant(msgs, user_input) ==
  Append(msgs, [role |-> "user", content |-> user_input])

TriggerMessages_ReplacesLast(msgs, user_input) ==
  Append([msgs EXCEPT ![Len(msgs)] = [role |-> "user", content |-> user_input]],
         ContextRequiredMsg)

TriggerMessages(msgs, user_input) ==
  Append(Append(msgs, [role |-> "user", content |-> user_input]),
         ContextRequiredMsg)

\* full_response of the except branch
ErrorResponse_Swallowed(e) == <<>>

ErrorResponse(e) == ErrorPrefix \o e

\* the running script, if any, is stopped at its next st.* call; nothing of
\* it runs after that
InterruptRun_KeepsRunning == UNCHANGED <<pc, call>>

InterruptRun == pc' = "ready" /\ call' = NoCall

\* reset_chat
reset_chat_KeepsForms ==
  /\ gemini_chat' = [id |-> gemini_chat.id + 1, sent |-> 0]
  /\ messages' = <<Greeting>>
  /\ user_details' = EmptyDict
  /\ user_choice_therapy' = THERAPY_OPTIONS[2]
  /\ UNCHANGED <<asking_for_details, show_prescription_form>>

reset_chat ==
  /\ gemini_chat' = [id |-> gemini_chat.id + 1, sent |-> 0]
  /\ messages' = <<Greeting>>
  /\ asking_for_details' = FALSE
  /\ user_details' = EmptyDict
  /\ show_prescription_form' = FALSE
  /\ user_choice_therapy' = THERAPY_OPTIONS[2]

\* handle_final_response up to send_message_stream: the user entry is
\* appended and the prompt goes to the chat handle
BeginResponse(kind, base_prompt, is_medicine_request) ==
  /\ messages' = Append(messages,
                   [role |-> "user",
                    content |-> DisplayContent(base_prompt, is_medicine_request)])
  /\ call' = [kind |-> kind,
              prompt |-> FinalPrompt(base_prompt, is_medicine_request, current_language)]
  /\ gemini_chat' = [gemini_chat EXCEPT !.sent = @ + 1]
  /\ pc' = "streaming"

\* the end of a turn closing both forms
FinishResponse_ClosesBothForms(full_response) ==
  /\ messages' = Append(messages, [role |-> "assistant", content |-> full_response])
  /\ show_prescription_form' = FALSE
  /\ asking_for_details' = FALSE
  /\ pc' = "ready"
  /\ call' = NoCall
  /\ UNCHANGED <<user_details, current_language, user_choice_therapy, gemini_chat>>

\* handle_final_response after the stream: the assistant entry is appended,
\* and the caller's statements up to st.rerun() follow
FinishResponse(full_response) ==
  /\ messages' = Append(messages, [role |-> "assistant", content |-> full_response])
  /\ show_prescription_form' =
       IF call.kind = "medicine" THEN FALSE ELSE show_prescription_form
  /\ pc' = "ready"
  /\ call' = NoCall
  /\ UNCHANGED <<asking_for_details, user_details, current_language,
                 user_choice_therapy, gemini_chat>>

(***************************************************************************)
(* Widget events                                                           *)
(***************************************************************************)
\* the language selectbox is moved
SelectLanguage(lang) ==
  /\ lang # current_language
  /\ current_language' = lang
  /\ InterruptRun
  /\ Record("language", <<>>)
  /\ UNCHANGED <<asking_for_details, show_prescription_form, user_details,
                 user_choice_therapy, messages, gemini_chat>>

\* a button that only ever opens the form
ToggleMedicineForm_OneWay ==
  /\ show_prescription_form' = TRUE
  /\ InterruptRun
  /\ Record("toggle", <<>>)
  /\ UNCHANGED <<asking_for_details, user_details, current_language,
                 user_choice_therapy, messages, gemini_chat>>

\* "Get Medicine Info" is clicked
ToggleMedicineForm ==
  /\ show_prescription_form' = ~show_prescription_form
  /\ InterruptRun
  /\ Record("toggle", <<>>)
  /\ UNCHANGED <<asking_for_details, user_details, current_language,
                 user_choice_therapy, messages, gemini_chat>>

\* "Clear Chat History" is clicked: on_click=reset_chat runs before the script
ClearChat ==
  /\ gemini_chat.id < MaxChats
  /\ reset_chat
  /\ InterruptRun
  /\ Record("clear", [awaiting |-> asking_for_details,
                      form |-> show_prescription_form,
                      entries |-> Len(messages)])
  /\ UNCHANGED current_language

\* voice or typed text arrives at the main input
SubmitTextIn(max, user_input) ==
  /\ MainInputOnPage
  /\ Record("text", user_input)
  /\ IF user_input = <<>>
     THEN /\ InterruptRun
          /\ UNCHANGED <<asking_for_details, show_prescription_form, user_details,
                         current_language, user_choice_therapy, messages, gemini_chat>>
     ELSE /\ Len(messages) + 2 <= max
          /\ IF NeedsContext(user_input)
             THEN /\ messages' = TriggerMessages(messages, user_input)
                  /\ asking_for_details' = TRUE
                  /\ InterruptRun
                  /\ UNCHANGED <<show_prescription_form, user_details,
                                 current_language, user_choice_therapy, gemini_chat>>
             ELSE /\ BeginResponse("direct", user_input, FALSE)
                  /\ UNCHANGED <<asking_for_details, show_prescription_form,
                                 user_details, current_language, user_choice_therapy>>

\* "Get Information" of the medicine form is pressed
SubmitMedicineFormIn(max, medicine_name) ==
  /\ show_prescription_form
  /\ Record("medicine", medicine_name)
  /\ IF medicine_name = <<>>
     THEN /\ InterruptRun
          /\ UNCHANGED <<asking_for_details, show_prescription_form, user_details,
                         current_language, user_choice_therapy, messages, gemini_chat>>
     ELSE /\ Len(messages) + 2 <= max
          /\ BeginResponse("medicine", MedPrompt(medicine_name), TRUE)
          /\ UNCHANGED <<asking_for_details, show_prescription_form,
                         user_details, current_language, user_choice_therapy>>

\* "Get Advice" of the context form is pressed: handle_context_form_submit
SubmitContextFormIn(max, user_gender, user_age, user_weight, user_therapy_choice) ==
  /\ asking_for_details
  /\ Len(messages) + 2 <= max
  /\ Record("context", [gender |-> user_gender, age |-> user_age,
                        weight |-> user_weight, therapy |-> user_therapy_choice])
  /\ user_details' =
       DictSet(DictSet(DictSet(DictSet(user_details,
         "gender", user_gender), "age", user_age), "weight", user_weight),
         "therapy", user_therapy_choice)
  /\ asking_for_details' = FALSE
  /\ BeginResponse("context",
       ContextPrompt(OriginalSymptom(messages), user_gender, user_age,
                     user_weight, user_therapy_choice),
       FALSE)
  /\ UNCHANGED <<show_prescription_form, current_language, user_choice_therapy>>

\* the three submits within the history bound of the main specification
SubmitText(user_input) == SubmitTextIn(MaxMessages, user_input)

SubmitMedicineForm(medicine_name) == SubmitMedicineFormIn(MaxMessages, medicine_name)

SubmitContextForm(user_gender, user_age, user_weight, user_therapy_choice) ==
  SubmitContextFormIn(MaxMessages, user_gender, user_age, user_weight,
                      user_therapy_choice)

(***************************************************************************)
(* Transport outcomes                                                      *)
(***************************************************************************)
\* the stream ends: full_response is the concatenated reply
TransportReply(reply) ==
  /\ pc = "streaming"
  /\ Record("reply", reply)
  /\ FinishResponse(reply)

\* send_message_stream or the stream raises
TransportError(e) ==
  /\ pc = "streaming"
  /\ Record("error", e)
  /\ FinishResponse(ErrorResponse(e))

Next ==
  \/ \E lang \in LanguageChoices : SelectLanguage(lang)
  \/ ToggleMedicineForm
  \/ ClearChat
  \/ \E user_input \in TextInputs : SubmitText(user_input)
  \/ \E medicine_name \in MedicineNames : SubmitMedicineForm(medicine_name)
  \/ \E g \in GenderChoices, a \in AgeChoices, w \in WeightChoices, t \in TherapyChoices :
       SubmitContextForm(g, a, w, t)
  \/ \E reply \in Replies : TransportReply(reply)
  \/ \E e \in Errors : TransportError(e)

Spec == Init /\ [][Next]_vars

(***************************************************************************)
(* The same session with one input per widget and a longer history, long   *)
(* enough for a second context-form submission                             *)
(***************************************************************************)
FormTextInputs == { <<"F","e","v","e","r">> }

FormMedicineNames == { <<"D","o","l","o"," ","6","5","0">> }

FormReplies == { <<"Summary.", "\n", "Tips.">> }

NextForms ==
  \/ ToggleMedicineForm
  \/ ClearChat
  \/ \E user_input \in FormTextInputs : SubmitTextIn(MaxFormMessages, user_input)
  \/ \E medicine_name \in FormMedicineNames :
       SubmitMedicineFormIn(MaxFormMessages, medicine_name)
  \/ \E g \in GenderChoices, a \in AgeChoices, w \in WeightChoices, t \in TherapyChoices :
       SubmitContextFormIn(MaxFormMessages, g, a, w, t)
  \/ \E reply \in FormReplies : TransportReply(reply)
  \/ \E e \in Errors : TransportError(e)

SpecForms == Init /\ [][NextForms]_vars

(***************************************************************************)
(* Properties                                                              *)
(***************************************************************************)
LastMessage(msgs) == msgs[Len(msgs)]

Idle == ~asking_for_details /\ ~show_prescription_form

\* C1: the flags asking_for_details and show_prescription_form are never
\* both true.
C1_FlagsMutuallyExclusive ==
  ~(asking_for_details /\ show_prescription_form)

\* C2: a free-text submission is handled only in a state in which both
\* asking_for_details and show_prescription_form are false; with either flag
\* true no step is a free-text submit, so none appends, changes a flag or
\* calls the transport.
C2_FreeTextOnlyWhenIdle ==
  [][event'.type = "text" =>
       ~asking_for_details /\ ~show_prescription_form]_vars

\* a free-text submission was accepted and dispatched
C2_Witness ==
  /\ event.type = "text"
  /\ event.arg # <<>>
  /\ pc = "streaming"
  /\ LastMessage(messages) = [role |-> "user", content |-> event.arg]

\* C3: the user entry appended by a turn is the short form: the raw input
\* for a direct query, exactly "Requesting info for medicine: <name>" for a
\* medicine submission, a one-line summary for a context submission; it is
\* never the prompt built for the transport.
C3_UserEntryIsShortForm ==
  [][(pc' = "streaming" /\ event'.type \in {"text", "medicine", "context"}) =>
       LET entry == LastMessage(messages')
       IN /\ entry.role = "user"
          /\ entry.content # call'.prompt
          /\ event'.type = "text" => entry.content = event'.arg
          /\ event'.type = "medicine" =>
               entry.content = MedicineRequestPrefix \o event'.arg
          /\ event'.type = "context" =>
               /\ \A i \in 1..Len(entry.content) : entry.content[i] # "\n"
               /\ ~StartsWith(call'.prompt, entry.content)]_vars

\* C4: a free-text submit with a trigger keyword appends the user message,
\* then the fixed context-required assistant message, sets
\* asking_for_details, and calls no transport in that step.
C4_TriggerAsksForContext ==
  [][(event'.type = "text" /\ NeedsContext(event'.arg)) =>
       /\ Idle
       /\ messages' = messages \o <<[role |-> "user", content |-> event'.arg],
                                    ContextRequiredMsg>>
       /\ asking_for_details'
       /\ gemini_chat' = gemini_chat
       /\ call' = NoCall
       /\ pc' = "ready"]_vars

\* a trigger input was just handled
C4_Witness ==
  /\ event.type = "text"
  /\ asking_for_details
  /\ Len(messages) >= 3
  /\ LastMessage(messages) = ContextRequiredMsg
  /\ messages[Len(messages) - 1] = [role |-> "user", content |-> event.arg]

\* C5: when the transport call of a turn fails, the last history entry is an
\* assistant message carrying the error string, the flags end as a successful
\* call of the same turn leaves them, and the session accepts the next action.
C5_FailureEndsTurnLikeSuccess ==
  [][(event'.type \in {"reply", "error"}) =>
       /\ asking_for_details' = asking_for_details
       /\ show_prescription_form' =
            (IF call.kind = "medicine" THEN FALSE ELSE show_prescription_form)
       /\ call.kind = "context" => ~asking_for_details'
       /\ pc' = "ready"
       /\ call' = NoCall
       /\ event'.type = "error" =>
            messages' = Append(messages,
              [role |-> "assistant", content |-> ErrorPrefix \o event'.arg])]_vars

\* the call of a medicine turn has failed
C5_Witness ==
  /\ event.type = "error"
  /\ pc = "ready"
  /\ Len(messages) >= 3
  /\ LastMessage(messages).role = "assistant"
  /\ StartsWith(LastMessage(messages).content, ErrorPrefix)
  /\ StartsWith(messages[Len(messages) - 1].content, MedicineRequestPrefix)
  /\ ~show_prescription_form

\* C6: a clear from any state leaves the greeting as the only history entry,
\* both flags false, the patient context empty and a fresh chat handle.
C6_ClearResetsSession ==
  [][event'.type = "clear" =>
       /\ messages' = <<Greeting>>
       /\ ~asking_for_details'
       /\ ~show_prescription_form'
       /\ user_details' = EmptyDict
       /\ gemini_chat'.id # gemini_chat.id
       /\ gemini_chat'.sent = 0
       /\ pc' = "ready"]_vars

\* a clear found both forms open, a filled context and a longer history
C6_Witness ==
  /\ event.type = "clear"
  /\ event.arg.awaiting
  /\ event.arg.form
  /\ event.arg.entries > 3
  /\ messages = <<Greeting>>
  /\ user_details = EmptyDict

\* C7: a clear issued while a transport call is outstanding drops the call:
\* the history is the greeting alone and no response is appended to it later
\* (a response is only ever appended right after the user entry of its turn).
C7_ClearDiscardsOutstandingCall ==
  [][/\ (event'.type = "clear" /\ pc = "streaming") =>
          /\ messages' = <<Greeting>>
          /\ pc' = "ready"
          /\ call' = NoCall
     /\ (event'.type \in {"reply", "error"}) =>
          /\ pc = "streaming"
          /\ LastMessage(messages).role = "user"
          /\ gemini_chat.sent > 0]_vars

\* a clear arrived during a call
C7_Witness ==
  /\ event.type = "clear"
  /\ event.during = "streaming"
  /\ event.arg.entries > 1
  /\ messages = <<Greeting>>
  /\ pc = "ready"

\* C8: once a context or medicine submission has got its assistant message,
\* both flags are false.
C8_FormTurnEndsIdle ==
  [][(event'.type \in {"reply", "error"} /\ call.kind \in {"context", "medicine"}) =>
       ~asking_for_details' /\ ~show_prescription_form']_vars

\* C9 as stated: context is required iff the lower-cased input contains a
\* keyword; empty and whitespace-only input requires none; every input
\* without a keyword goes straight to the transport, no form shown.
C9_EveryKeywordlessInputDispatched ==
  [][event'.type = "text" =>
       LET x == event'.arg
           keyword == \E k \in TRIGGER_KEYWORDS : Contains(Lower(x), k)
       IN /\ asking_for_details' <=> keyword
          /\ (\A i \in 1..Len(x) : x[i] \in Whitespace) => ~asking_for_details'
          /\ ~keyword =>
               /\ pc' = "streaming"
               /\ call' = [kind |-> "direct",
                           prompt |-> FinalPrompt(x, FALSE, current_language)]
               /\ ~asking_for_details' /\ ~show_prescription_form']_vars

\* C9 amended: as above, but only a non-empty input without a keyword goes
\* to the transport; an empty input is dropped (nothing appended, no call).
C9_KeywordDecidesContext ==
  [][event'.type = "text" =>
       LET x == event'.arg
           keyword == \E k \in TRIGGER_KEYWORDS : Contains(Lower(x), k)
       IN /\ asking_for_details' <=> keyword
          /\ (\A i \in 1..Len(x) : x[i] \in Whitespace) => ~asking_for_details'
          /\ (~keyword /\ x # <<>>) =>
               /\ pc' = "streaming"
               /\ call' = [kind |-> "direct",
                           prompt |-> FinalPrompt(x, FALSE, current_language)]
               /\ gemini_chat'.sent = gemini_chat.sent + 1
               /\ ~asking_for_details' /\ ~show_prescription_form'
          /\ x = <<>> =>
               /\ messages' = messages
               /\ gemini_chat' = gemini_chat
               /\ call' = NoCall]_vars

\* an input with a keyword in another case was classified
C9_Witness ==
  /\ event.type = "text"
  /\ event.arg = <<"F","e","v","e","r">>
  /\ asking_for_details
  /\ pc = "ready"

\* C10: no assistant entry of the history holds an image tag, stored or
\* displayed.
C10_AssistantEntriesHaveNoTag ==
  \A i \in 1..Len(messages) :
    messages[i].role = "assistant" =>
      /\ ~HasImageTag(messages[i].content)
      /\ ~HasImageTag(Displayed(i))

\* C11: the prompt a context-form submission sends holds the submitted
\* gender, age range, weight and therapy preference, and the content of the
\* most recent user entry of the history that does not start with the
\* medicine-request marker.
C11_ContextPromptHoldsFormAndSymptom ==
  [][event'.type = "context" =>
       LET p == call'.prompt
           a == event'.arg
           symptomAt(i) == /\ messages[i].role = "user"
                           /\ ~StartsWith(messages[i].content, RequestingInfo)
       IN /\ pc' = "streaming"
          /\ Contains(p, <<a.gender>>)
          /\ Contains(p, <<a.age>>)
          /\ Contains(p, <<", Weight ">> \o IntToStr(a.weight) \o <<"kg">>)
          /\ Contains(p, <<a.therapy>>)
          /\ \A i \in 1..Len(messages) :
               (symptomAt(i) /\ \A j \in (i + 1)..Len(messages) : ~symptomAt(j))
                 => Contains(p, <<"User Complaint: ">> \o messages[i].content)]_vars

\* a context form was submitted after a medicine request that followed the
\* symptom: the prompt holds the symptom, not the request
C11_Witness ==
  /\ event.type = "context"
  /\ pc = "streaming"
  /\ Len(messages) >= 5
  /\ StartsWith(messages[Len(messages) - 1].content, MedicineRequestPrefix)
  /\ messages[Len(messages) - 3].content = <<"F","e","v","e","r">>
  /\ Contains(call.prompt, <<"User Complaint: ", "F","e","v","e","r", "\n">>)
  /\ Contains(call.prompt, <<", Weight ", "7", "0", "kg">>)

\* C12: every user action makes at most one transport call and none is
\* retried: a direct query, a context submission and a medicine submission
\* with a name make exactly one, a trigger submit, a toggle and a clear make
\* none, and a call starts only when the previous one has completed.
C12_OneCallPerActionInOrder ==
  [][LET t == event'.type
         dispatch == \/ t = "context"
                     \/ t = "medicine" /\ event'.arg # <<>>
                     \/ t = "text" /\ event'.arg # <<>> /\ ~NeedsContext(event'.arg)
     IN /\ dispatch =>
             /\ gemini_chat'.sent = gemini_chat.sent + 1
             /\ pc' = "streaming"
             /\ pc = "ready"
        /\ (~dispatch /\ t # "clear") => gemini_chat'.sent = gemini_chat.sent
        /\ t = "clear" => gemini_chat'.sent = 0 /\ call' = NoCall
        /\ t \in {"reply", "error"} => pc' = "ready" /\ call' = NoCall]_vars

\* C13: the patient context is either empty (session start, after a clear)
\* or holds the four fields gender, age, weight, therapy with the values of
\* the most recent context-form submission: a submission overwrites all
\* four, a clear empties it, nothing else changes it.
C13_ContextWholeOrEmpty ==
  /\ [](\/ user_details = EmptyDict
        \/ DOMAIN user_details = {"gender", "age", "weight", "therapy"})
  /\ [][/\ event'.type = "context" =>
             /\ DOMAIN user_details' = {"gender", "age", "weight", "therapy"}
             /\ user_details'["gender"] = event'.arg.gender
             /\ user_details'["age"] = event'.arg.age
             /\ user_details'["weight"] = event'.arg.weight
             /\ user_details'["therapy"] = event'.arg.therapy
        /\ event'.type = "clear" => user_details' = EmptyDict
        /\ event'.type \notin {"context", "clear"} =>
             user_details' = user_details]_vars

\* a second context form, differing from the first in gender and therapy,
\* was submitted in the same conversation
C13_Witness ==
  /\ event.type = "context"
  /\ user_details["gender"] = GENDER_OPTIONS[2]
  /\ user_details["therapy"] = THERAPY_OPTIONS[1]
  /\ \E i \in 1..(Len(messages) - 1) :
       /\ messages[i].role = "user"
       /\ Contains(messages[i].content, <<"Context: ", GENDER_OPTIONS[1]>>)
       /\ Contains(messages[i].content,
                   <<"Preferred Approach: ", THERAPY_OPTIONS[2]>>)

\* C14: the history is append-only: every step other than a clear leaves the
\* history it found as a prefix of the new history.
C14_HistoryAppendOnly ==
  [][event'.type # "clear" =>
       /\ Len(messages') >= Len(messages)
       /\ SubSeq(messages', 1, Len(messages)) = messages]_vars

\* a trigger submit has appended its two entries to a history that already
\* held a completed turn
C14_Witness ==
  /\ event.type = "text"
  /\ Len(messages) >= 5
  /\ messages[1] = Greeting
  /\ messages[3].role = "assistant"
  /\ LastMessage(messages) = ContextRequiredMsg

\* C15: extractVisualAid is idempotent: for every response, cleaning the
\* cleaned text again gives the same text and finds no image tag in it.
C15_CleanTextIdempotent ==
  \A i \in 1..Len(messages) :
    messages[i].role = "assistant" =>
      LET displayText == CleanText(messages[i].content)
      IN /\ CleanText(displayText) = displayText
         /\ ~HasImageTag(displayText)

\* C16: the medicine button is a toggle: from Idle it opens the medicine
\* form, a second click closes it again, and a click changes neither the
\* history, the patient context nor asking_for_details and calls no transport.
C16_ToggleOnlyFlipsForm ==
  [][event'.type = "toggle" =>
       /\ show_prescription_form' = ~show_prescription_form
       /\ Idle => (show_prescription_form' /\ ~asking_for_details')
       /\ (show_prescription_form /\ ~asking_for_details) =>
            (~show_prescription_form' /\ ~asking_for_details')
       /\ messages' = messages
       /\ user_details' = user_details
       /\ asking_for_details' = asking_for_details
       /\ gemini_chat' = gemini_chat
       /\ call' = NoCall]_vars

\* the form was closed again by a click, with a history and a context in place
C16_Witness ==
  /\ event.type = "toggle"
  /\ ~show_prescription_form
  /\ ~asking_for_details
  /\ Len(messages) >= 5
  /\ user_details # EmptyDict

\* C17: on every context-form submission the symptom put into the prompt is
\* the raw free-text input whose submission set asking_for_details (the user
\* entry right before the latest context-required message).
C17_SymptomIsTriggeringInput ==
  [][event'.type = "context" =>
       LET asked == { i \in 2..Len(messages) : messages[i] = ContextRequiredMsg }
           k == CHOOSE i \in asked : \A j \in asked : j <= i
       IN /\ asked # {}
          /\ messages[k - 1].role = "user"
          /\ StartsWith(call'.prompt,
               <<"User Complaint: ">> \o messages[k - 1].content \o <<"\n">>)]_vars

\* C18: between user actions the history starts with the greeting and then
\* alternates user, assistant: its length is odd and its last entry is an
\* assistant entry.
C18_HistoryAlternates ==
  pc = "ready" =>
    /\ messages[1] = Greeting
    /\ Len(messages) % 2 = 1
    /\ LastMessage(messages).role = "assistant"
    /\ \A i \in 2..Len(messages) :
         messages[i].role = (IF i % 2 = 0 THEN "user" ELSE "assistant")

\* C19: asking_for_details, once true, stays true until a context-form
\* submission or a clear (no toggle, no medicine submission changes it), and
\* user actions lead from every state back to Idle with the free-text input
\* on the page: a click closes an open medicine form, a context submission
\* (while the history bound leaves room) or a clear (while the chat bound
\* does) ends the wait for context, and two clicks stop a running call.
C19_AwaitingContextHoldsAndIdleReachable ==
  /\ [][(asking_for_details /\ event'.type \notin {"context", "clear"}) =>
          asking_for_details']_vars
  /\ [](/\ show_prescription_form =>
             ENABLED (ToggleMedicineForm /\ ~show_prescription_form'
                        /\ asking_for_details' = asking_for_details
                        /\ pc' = "ready")
        /\ (asking_for_details /\ ~show_prescription_form
              /\ Len(messages) + 2 <= MaxMessages) =>
             ENABLED (/\ \E g \in GenderChoices, a \in AgeChoices,
                             w \in WeightChoices, t \in TherapyChoices :
                           SubmitContextForm(g, a, w, t)
                      /\ ~asking_for_details' /\ ~show_prescription_form')
        /\ (asking_for_details /\ gemini_chat.id < MaxChats) =>
             ENABLED (ClearChat /\ ~asking_for_details' /\ ~show_prescription_form'
                        /\ pc' = "ready")
        /\ (Idle /\ pc = "streaming") =>
             ENABLED (ToggleMedicineForm /\ show_prescription_form'
                        /\ ~asking_for_details' /\ pc' = "ready")
        /\ (Idle /\ pc = "ready") =>
             /\ MainInputOnPage
             /\ ENABLED (\E user_input \in TextInputs : SubmitText(user_input)))

\* a medicine request was answered while the context form was open, and
\* the form is still open
C19_Witness ==
  /\ event.type \in {"reply", "error"}
  /\ asking_for_details
  /\ ~show_prescription_form
  /\ Len(messages) >= 5
  /\ StartsWith(messages[Len(messages) - 1].content, MedicineRequestPrefix)

====
